---- MODULE Spec2Model ----
(***************************************************************************)
(* Model of esp32_mqtt_publish_subscribe.cpp: an ESP32 sketch that         *)
(* publishes BME280 telemetry over MQTT and drives four relays from text   *)
(* commands received on esp32/command.                                     *)
(*                                                                         *)
(* The sketch is single threaded.  Every action below is one step of       *)
(* setup() or loop(); `out' holds, in program order, the externally        *)
(* visible effects (pin writes, MQTT calls, log lines, delays) performed   *)
(* by the most recent step.  Steps of the environment (time passing, the   *)
(* broker link dropping) perform no program effect and leave `out' empty.  *)
(***************************************************************************)
EXTENDS Integers, Sequences, FiniteSets, TLC

\* ---------------------------------------------------------------- bounds
\* Largest tick value (ms) the model lets millis() reach.
MaxClock == 10002
\* Largest number of 500 ms polls of WiFi.status() before association.
MaxWifiPolls == 1
\* How long (ms) before the tick counter, read as a long, passes from
\* MaxLong to MinLong the runs of WrapSpec start.
WrapLead == 2501
\* Amounts of time (ms) that may pass between two loop() iterations.
TickSteps == {2500, 2501}

\* ------------------------------------------------------- program constants
RELAY_00_COMMAND_ON == "relay 0 on"
RELAY_00_COMMAND_OFF == "relay 0 off"
RELAY_01_COMMAND_ON == "relay 1 on"
RELAY_01_COMMAND_OFF == "relay 1 off"
RELAY_02_COMMAND_ON == "relay 2 on"
RELAY_02_COMMAND_OFF == "relay 2 off"
RELAY_03_COMMAND_ON == "relay 3 on"
RELAY_03_COMMAND_OFF == "relay 3 off"

Relay_00 == 0
Relay_01 == 1
Relay_02 == 2
Relay_03 == 3
Relay == {Relay_00, Relay_01, Relay_02, Relay_03}

Relay_00_Pin == 26
Relay_01_Pin == 25
Relay_02_Pin == 27
Relay_03_Pin == 14
RelayPin == {Relay_00_Pin, Relay_01_Pin, Relay_02_Pin, Relay_03_Pin}

topic_telemetry_data == "esp32/telemetry_data"
topic_relay_00_status == "esp32/relay_00_status"
topic_relay_01_status == "esp32/relay_01_status"
topic_relay_02_status == "esp32/relay_02_status"
topic_relay_03_status == "esp32/relay_03_status"
topic_command == "esp32/command"

relay_status_on == "1"
relay_status_off == "0"

interval == 5000
ReconnectDelay == 5000
WifiPollDelay == 500

\* `long' is 32 bits wide on the ESP32.
MaxLong == 2147483647
MinLong == (-2147483647) - 1

\* ------------------------------------------------------------------ inputs
\* Topics a message handed to callback() may carry.
Topics == {topic_command, "esp32/other", "ESP32/command"}
\* Payloads a message handed to callback() may carry.
Payloads ==
  { RELAY_00_COMMAND_ON, RELAY_00_COMMAND_OFF, RELAY_01_COMMAND_ON,
    RELAY_01_COMMAND_OFF, RELAY_02_COMMAND_ON, RELAY_02_COMMAND_OFF,
    RELAY_03_COMMAND_ON, RELAY_03_COMMAND_OFF,
    "relay 9 on", "Relay 0 on", "relay 0 on ", "" }

\* ------------------------------------------------------------------- state
VARIABLES
  pc,            \* position of the single thread of control
  pins,          \* level of each relay output pin: "UNSET" | "HIGH" | "LOW"
  reported,      \* per relay, the "status" field of the last status message
                 \* built by update_relay_status ("none" before the first)
  connected,     \* client.connected()
  subscribed,    \* client.subscribe(topic_command) was called on this link
  millis,        \* the monotonic tick counter, in ms
  now,           \* loop()'s local `now'
  lastMessage,   \* global lastMessage
  counter,       \* global counter
  lastPublishAt, \* tick value at which the last telemetry publish happened
  outage,        \* "none" | "found" | "restored": whether loop() found the
                 \* transport down and whether a connect has succeeded since
  out            \* effects of the most recent step, in program order

vars ==
  << pc, pins, reported, connected, subscribed, millis, now, lastMessage,
     counter, lastPublishAt, outage, out >>

\* One externally visible effect.
Ev(op, topic, id, val, ok) ==
  [op |-> op, topic |-> topic, id |-> id, val |-> val, ok |-> ok]

\* a - b computed without wrapping: a result below MinLong or above MaxLong
\* is cut to MinLong or MaxLong.
Sub32_saturating(a, b) ==
  IF a >= 0 /\ b < 0 /\ a > MaxLong + b
    THEN MaxLong
    ELSE IF a < 0 /\ b >= 0 /\ a < MinLong + b
           THEN MinLong
           ELSE a - b

\* a - b on 32-bit two's complement longs, for a, b in MinLong..MaxLong.
Sub32(a, b) ==
  IF a >= 0 /\ b < 0 /\ a > MaxLong + b
    THEN ((a - MaxLong) - 1) - ((b + MaxLong) + 1)
    ELSE IF a < 0 /\ b >= 0 /\ a < MinLong + b
           THEN ((a + MaxLong) + 1) - ((b - MaxLong) - 1)
           ELSE a - b

\* millis() d ms after it returned m: the 32-bit counter, read as a long,
\* goes from MaxLong to MinLong.
Add32(m, d) == Sub32(m, 0 - d)

\* ms between the start of the modelled stretch of time and tick m.  The
\* stretch starts at boot (tick 0) or WrapLead ms before tick MaxLong.
Position(m) ==
  IF m >= MaxLong - WrapLead
    THEN m - (MaxLong - WrapLead)
    ELSE IF m < 0 THEN ((m - MinLong) + WrapLead) + 1 ELSE m

\* The modelled stretch of time has room for d more ms after tick m.
Room(m, d) == Position(m) + d <= MaxClock

\* A case-folding comparison, over the strings the inputs contain.
FoldCase(s) ==
  CASE s = "ESP32/command" -> "esp32/command"
    [] s = "Relay 0 on" -> "relay 0 on"
    [] OTHER -> s

\* String comparison that ignores case.
equalsIgnoreCase(a, b) == FoldCase(a) = FoldCase(b)

\* String::operator==, exact and case sensitive.
equals(a, b) == a = b

\* --------------------------------------------------------- Relay Bank
\* update_relay_status with the breaks of its switch missing: every case
\* falls through to the ones below it.
update_relay_status_fallthrough(relayId, status, ok) ==
  LET all == << Ev("publish", topic_relay_00_status, relayId, status, ok),
                Ev("publish", topic_relay_01_status, relayId, status, ok),
                Ev("publish", topic_relay_02_status, relayId, status, ok),
                Ev("publish", topic_relay_03_status, relayId, status, ok) >>
  IN IF relayId \in Relay THEN SubSeq(all, relayId + 1, 4) ELSE << >>

\* update_relay_status: the publish performed for relayId.  `ok' is the
\* result of client.publish, which the sketch discards.
update_relay_status(relayId, status, ok) ==
  CASE relayId = Relay_00 ->
         << Ev("publish", topic_relay_00_status, relayId, status, ok) >>
    [] relayId = Relay_01 ->
         << Ev("publish", topic_relay_01_status, relayId, status, ok) >>
    [] relayId = Relay_02 ->
         << Ev("publish", topic_relay_02_status, relayId, status, ok) >>
    [] relayId = Relay_03 ->
         << Ev("publish", topic_relay_03_status, relayId, status, ok) >>
    [] OTHER -> << >>

\* The "status" member of the JSON document update_relay_status builds.
relayStatus(rep, relayId, status) ==
  IF relayId \in DOMAIN rep THEN [rep EXCEPT ![relayId] = status] ELSE rep

\* A branch that also drives every other relay output off.
SwitchRelay_ResetOthers(pin, level, relayId, status, text, ok) ==
  [ pins |-> [p \in RelayPin |-> IF p = pin THEN level ELSE "HIGH"],
    reported |-> relayStatus(reported, relayId, status),
    out |-> << Ev("digitalWrite", "", pin, level, TRUE) >>
            \o update_relay_status(relayId, status, ok)
            \o << Ev("notice", "", relayId, text, TRUE) >> ]

\* A branch that reports the status only when the level changes.
SwitchRelay_OnChange(pin, level, relayId, status, text, ok) ==
  [ pins |-> [pins EXCEPT ![pin] = level],
    reported |-> relayStatus(reported, relayId, status),
    out |-> << Ev("digitalWrite", "", pin, level, TRUE) >>
            \o (IF pins[pin] = level
                  THEN << >>
                  ELSE update_relay_status(relayId, status, ok))
            \o << Ev("notice", "", relayId, text, TRUE) >> ]

\* One branch of callback's command chain: digitalWrite, then
\* update_relay_status, then the notice.
SwitchRelay(pin, level, relayId, status, text, ok) ==
  [ pins |-> [pins EXCEPT ![pin] = level],
    reported |-> relayStatus(reported, relayId, status),
    out |-> << Ev("digitalWrite", "", pin, level, TRUE) >>
            \o update_relay_status(relayId, status, ok)
            \o << Ev("notice", "", relayId, text, TRUE) >> ]

\* The log lines callback writes for every message before it dispatches.
Arrived(topic, messageTemp) ==
  << Ev("notice", topic, 0, "Message arrived on topic", TRUE),
     Ev("print", topic, 0, messageTemp, TRUE) >>

\* ------------------------------------------------- Command Dispatcher
\* callback(topic, message, length): the new pin levels, the new reported
\* statuses and the effects, from the current ones.
callback(topic, messageTemp, ok) ==
  LET res ==
        IF equals(topic, topic_command)
          THEN IF equals(messageTemp, RELAY_00_COMMAND_ON)
            THEN SwitchRelay(Relay_00_Pin, "LOW", Relay_00, relay_status_on,
                             "Switch On relay 0", ok)
          ELSE IF equals(messageTemp, RELAY_00_COMMAND_OFF)
            THEN SwitchRelay(Relay_00_Pin, "HIGH", Relay_00, relay_status_off,
                             "Switch Off relay 0", ok)
          ELSE IF equals(messageTemp, RELAY_01_COMMAND_ON)
            THEN SwitchRelay(Relay_01_Pin, "LOW", Relay_01, relay_status_on,
                             "Switch On relay 1", ok)
          ELSE IF equals(messageTemp, RELAY_01_COMMAND_OFF)
            THEN SwitchRelay(Relay_01_Pin, "HIGH", Relay_01, relay_status_off,
                             "Switch Off relay 1", ok)
          ELSE IF equals(messageTemp, RELAY_02_COMMAND_ON)
            THEN SwitchRelay(Relay_02_Pin, "LOW", Relay_02, relay_status_on,
                             "Switch On relay 2", ok)
          ELSE IF equals(messageTemp, RELAY_02_COMMAND_OFF)
            THEN SwitchRelay(Relay_02_Pin, "HIGH", Relay_02, relay_status_off,
                             "Switch Off relay 2", ok)
          ELSE IF equals(messageTemp, RELAY_03_COMMAND_ON)
            THEN SwitchRelay(Relay_03_Pin, "LOW", Relay_03, relay_status_on,
                             "Switch On relay 3", ok)
          ELSE IF equals(messageTemp, RELAY_03_COMMAND_OFF)
            THEN SwitchRelay(Relay_03_Pin, "HIGH", Relay_03, relay_status_off,
                             "Switch Off relay 3", ok)
          ELSE [ pins |-> pins, reported |-> reported,
                 out |-> << Ev("warning", "", 0, "No command recognized",
                               TRUE) >> ]
          ELSE [ pins |-> pins, reported |-> reported, out |-> << >> ]
  IN [ pins |-> res.pins, reported |-> res.reported,
       out |-> Arrived(topic, messageTemp) \o res.out ]

\* ------------------------------------------------------------ startup
Init ==
  /\ pc = "setup"
  /\ pins = [p \in RelayPin |-> "UNSET"]
  /\ reported = [r \in Relay |-> "none"]
  /\ connected = FALSE
  /\ subscribed = FALSE
  /\ millis = 0
  /\ now = 0
  /\ lastMessage = 0
  /\ counter = 0
  /\ lastPublishAt = 0
  /\ outage = "none"
  /\ out = << >>

\* setup() without the while (1): it reports the missing sensor and goes on.
setup_sensor_missing_continue ==
  /\ pc = "setup"
  /\ pc' = "setup_wifi"
  /\ out' = << Ev("print", "", 0,
                  "Could not find a BME280 sensor, check wiring!", TRUE) >>
  /\ UNCHANGED << pins, reported, connected, subscribed, millis, now,
                  lastMessage, counter, lastPublishAt, outage >>

\* setup(), bme.begin(0x76) fails: the sketch spins in while (1).
setup_sensor_missing ==
  /\ pc = "setup"
  /\ pc' = "halt"
  /\ out' = << Ev("print", "", 0,
                  "Could not find a BME280 sensor, check wiring!", TRUE) >>
  /\ UNCHANGED << pins, reported, connected, subscribed, millis, now,
                  lastMessage, counter, lastPublishAt, outage >>

\* setup(), bme.begin(0x76) succeeds: on to setup_wifi() and WiFi.begin.
setup_sensor_found ==
  /\ pc = "setup"
  /\ pc' = "setup_wifi"
  /\ out' = << Ev("WiFi.begin", "", 0, "", TRUE) >>
  /\ UNCHANGED << pins, reported, connected, subscribed, millis, now,
                  lastMessage, counter, lastPublishAt, outage >>

\* setup_wifi(), WiFi.status() != WL_CONNECTED: delay(500) and poll again.
setup_wifi_wait ==
  /\ pc = "setup_wifi"
  /\ millis + WifiPollDelay <= MaxWifiPolls * WifiPollDelay
  /\ millis' = millis + WifiPollDelay
  /\ out' = << Ev("delay", "", WifiPollDelay, "", TRUE) >>
  /\ UNCHANGED << pc, pins, reported, connected, subscribed, now,
                  lastMessage, counter, lastPublishAt, outage >>

\* setup_wifi(), WiFi.status() == WL_CONNECTED: ping the broker and return.
setup_wifi_done ==
  /\ pc = "setup_wifi"
  /\ pc' = "setup_relays"
  /\ \E success \in BOOLEAN :
       out' = IF success
                THEN << Ev("notice", "", 0, "Ping OK", TRUE) >>
                ELSE << Ev("error", "", 0, "Ping failed", TRUE) >>
  /\ UNCHANGED << pins, reported, connected, subscribed, millis, now,
                  lastMessage, counter, lastPublishAt, outage >>

\* setup(), after setup_wifi(): pinMode OUTPUT and digitalWrite HIGH on the
\* four relay pins, then timeClient.begin().
setup_relays ==
  /\ pc = "setup_relays"
  /\ pc' = "loop_time"
  /\ pins' = [p \in RelayPin |-> "HIGH"]
  /\ out' = << Ev("digitalWrite", "", Relay_00_Pin, "HIGH", TRUE),
               Ev("digitalWrite", "", Relay_01_Pin, "HIGH", TRUE),
               Ev("digitalWrite", "", Relay_02_Pin, "HIGH", TRUE),
               Ev("digitalWrite", "", Relay_03_Pin, "HIGH", TRUE) >>
  /\ UNCHANGED << reported, connected, subscribed, millis, now, lastMessage,
                  counter, lastPublishAt, outage >>

\* ---------------------------------------------------------- environment
\* Time passes between two iterations of loop().
Tick ==
  /\ pc = "loop_time"
  /\ \E d \in TickSteps :
       /\ Room(millis, d)
       /\ millis' = Add32(millis, d)
  /\ out' = << >>
  /\ UNCHANGED << pc, pins, reported, connected, subscribed, now,
                  lastMessage, counter, lastPublishAt, outage >>

\* The link to the broker drops; the session's subscription goes with it.
LinkDrop ==
  /\ pc \in {"loop_time", "loop_now", "reconnect", "service", "gate"}
  /\ connected
  /\ connected' = FALSE
  /\ subscribed' = FALSE
  /\ out' = << >>
  /\ UNCHANGED << pc, pins, reported, millis, now, lastMessage, counter,
                  lastPublishAt, outage >>

\* ----------------------------------------------------------------- loop
\* loop(): while (!timeClient.update()) timeClient.forceUpdate();
\* the refresh fails and is forced again.
loop_time_retry ==
  /\ pc = "loop_time"
  /\ out' = << Ev("forceUpdate", "", 0, "", FALSE) >>
  /\ UNCHANGED << pc, pins, reported, connected, subscribed, millis, now,
                  lastMessage, counter, lastPublishAt, outage >>

\* loop(): timeClient.update() returns true.
loop_time_done ==
  /\ pc = "loop_time"
  /\ pc' = "loop_now"
  /\ out' = << Ev("update", "", 0, "", TRUE) >>
  /\ UNCHANGED << pins, reported, connected, subscribed, millis, now,
                  lastMessage, counter, lastPublishAt, outage >>

\* loop(): long now = millis(); if (!client.connected()) reconnect();
loop_now ==
  /\ pc = "loop_now"
  /\ now' = millis
  /\ pc' = IF connected THEN "service" ELSE "reconnect"
  /\ outage' = IF connected THEN "none" ELSE "found"
  /\ out' = << >>
  /\ UNCHANGED << pins, reported, connected, subscribed, millis,
                  lastMessage, counter, lastPublishAt >>

\* The four calls with the last one left addressed to Relay_02.
reconnect_status_dup(ok) ==
  update_relay_status(Relay_00, relay_status_off, ok[Relay_00])
  \o update_relay_status(Relay_01, relay_status_off, ok[Relay_01])
  \o update_relay_status(Relay_02, relay_status_off, ok[Relay_02])
  \o update_relay_status(Relay_02, relay_status_off, ok[Relay_03])

\* The four status messages reconnect() publishes after a connect.
reconnect_status(ok) ==
  update_relay_status(Relay_00, relay_status_off, ok[Relay_00])
  \o update_relay_status(Relay_01, relay_status_off, ok[Relay_01])
  \o update_relay_status(Relay_02, relay_status_off, ok[Relay_02])
  \o update_relay_status(Relay_03, relay_status_off, ok[Relay_03])

\* reconnect() also driving the four relay outputs off when it reports
\* them off.
reconnect_connected_reinit ==
  /\ pc = "reconnect"
  /\ ~connected
  /\ connected' = TRUE
  /\ subscribed' = TRUE
  /\ pins' = [p \in RelayPin |-> "HIGH"]
  /\ reported' = [r \in Relay |-> relay_status_off]
  /\ outage' = "restored"
  /\ \E ok \in [Relay -> BOOLEAN] :
       out' = << Ev("connect", "", 0, "", TRUE),
                 Ev("subscribe", topic_command, 0, "", TRUE) >>
              \o reconnect_status(ok)
  /\ UNCHANGED << pc, millis, now, lastMessage, counter, lastPublishAt >>

\* reconnect(): client.connect succeeds; subscribe, then report the four
\* relays off.  Control goes back to the while condition.
reconnect_connected ==
  /\ pc = "reconnect"
  /\ ~connected
  /\ connected' = TRUE
  /\ subscribed' = TRUE
  /\ reported' =
       relayStatus(relayStatus(relayStatus(relayStatus(reported,
         Relay_00, relay_status_off), Relay_01, relay_status_off),
         Relay_02, relay_status_off), Relay_03, relay_status_off)
  /\ outage' = "restored"
  /\ \E ok \in [Relay -> BOOLEAN] :
       out' = << Ev("connect", "", 0, "", TRUE),
                 Ev("subscribe", topic_command, 0, "", TRUE) >>
              \o reconnect_status(ok)
  /\ UNCHANGED << pc, pins, millis, now, lastMessage, counter,
                  lastPublishAt >>

\* reconnect() giving up after a failed attempt: it logs, waits and
\* returns to loop().
reconnect_failed_giveup ==
  /\ pc = "reconnect"
  /\ ~connected
  /\ Room(millis, ReconnectDelay)
  /\ millis' = Add32(millis, ReconnectDelay)
  /\ pc' = "service"
  /\ out' = << Ev("connect", "", 0, "", FALSE),
               Ev("error", "", 0, "failed, try again in 5 seconds", TRUE),
               Ev("delay", "", ReconnectDelay, "", TRUE) >>
  /\ UNCHANGED << pins, reported, connected, subscribed, now,
                  lastMessage, counter, lastPublishAt, outage >>

\* reconnect(): client.connect fails; log, delay(5000), try again.
reconnect_failed ==
  /\ pc = "reconnect"
  /\ ~connected
  /\ Room(millis, ReconnectDelay)
  /\ millis' = Add32(millis, ReconnectDelay)
  /\ out' = << Ev("connect", "", 0, "", FALSE),
               Ev("error", "", 0, "failed, try again in 5 seconds", TRUE),
               Ev("delay", "", ReconnectDelay, "", TRUE) >>
  /\ UNCHANGED << pc, pins, reported, connected, subscribed, now,
                  lastMessage, counter, lastPublishAt, outage >>

\* reconnect() written with `if' in place of `while': it returns after one
\* attempt, whatever its result.
reconnect_return_once ==
  /\ pc = "reconnect"
  /\ out /= << >>
  /\ pc' = "service"
  /\ out' = << >>
  /\ UNCHANGED << pins, reported, connected, subscribed, millis, now,
                  lastMessage, counter, lastPublishAt, outage >>

\* reconnect(): the while condition finds client.connected(); return.
reconnect_return ==
  /\ pc = "reconnect"
  /\ connected
  /\ pc' = "service"
  /\ out' = << >>
  /\ UNCHANGED << pins, reported, connected, subscribed, millis, now,
                  lastMessage, counter, lastPublishAt, outage >>

\* loop(): client.loop() with no inbound message to hand over (always so
\* when the link is down).
client_loop_idle ==
  /\ pc = "service"
  /\ pc' = "gate"
  /\ out' = << >>
  /\ UNCHANGED << pins, reported, connected, subscribed, millis, now,
                  lastMessage, counter, lastPublishAt, outage >>

\* client.loop() called again for as long as it hands a message over:
\* control stays at the service step.
client_loop_drain ==
  /\ pc = "service"
  /\ connected
  /\ pc' = "service"
  /\ \E topic \in Topics, messageTemp \in Payloads, ok \in BOOLEAN :
       LET res == callback(topic, messageTemp, ok)
       IN /\ pins' = res.pins
          /\ reported' = res.reported
          /\ out' = res.out
  /\ UNCHANGED << connected, subscribed, millis, now, lastMessage, counter,
                  lastPublishAt, outage >>

\* loop(): client.loop() reads one inbound message and calls callback.
client_loop_message ==
  /\ pc = "service"
  /\ connected
  /\ pc' = "gate"
  /\ \E topic \in Topics, messageTemp \in Payloads, ok \in BOOLEAN :
       LET res == callback(topic, messageTemp, ok)
       IN /\ pins' = res.pins
          /\ reported' = res.reported
          /\ out' = res.out
  /\ UNCHANGED << connected, subscribed, millis, now, lastMessage, counter,
                  lastPublishAt, outage >>

\* The comparison written without the subtraction:
\* now > lastMessage + interval.
gate_compare(n, last) == n > Add32(last, interval)

\* The comparison written with >= in place of >.
gate_ge(n, last) == Sub32(n, last) >= interval

\* loop(): now - lastMessage > interval
gate(n, last) == Sub32(n, last) > interval

\* counter++ in place of ++counter: the message carries the old value.
postincrement(c) == [value |-> c, counter |-> c + 1]

\* ++counter: the new value of counter and the value the message carries.
\* (On the device counter is a 32-bit int; at one publish per interval it
\* takes centuries to reach 2^31.)
preincrement(c) == [value |-> c + 1, counter |-> c + 1]

\* The telemetry block keeping lastMessage and counter for a publish that
\* succeeded only, so that a failed one is retried in the next iteration.
telemetry_publish_checked ==
  /\ pc = "gate"
  /\ gate(now, lastMessage)
  /\ pc' = "loop_time"
  /\ \E ok \in BOOLEAN :
       /\ ok => connected
       /\ lastMessage' = IF ok THEN now ELSE lastMessage
       /\ counter' = IF ok THEN preincrement(counter).counter ELSE counter
       /\ lastPublishAt' = IF ok THEN millis ELSE lastPublishAt
       /\ out' = << Ev("readSensor", "", 0, "", TRUE),
                    Ev("publish", topic_telemetry_data,
                       preincrement(counter).value, "", ok),
                    Ev("print", "", preincrement(counter).value, "telemetry",
                       TRUE) >>
  /\ UNCHANGED << pins, reported, connected, subscribed, millis, now,
                  outage >>

\* loop(): the telemetry block runs.
telemetry_publish ==
  /\ pc = "gate"
  /\ gate(now, lastMessage)
  /\ pc' = "loop_time"
  /\ lastMessage' = now
  /\ counter' = preincrement(counter).counter
  /\ lastPublishAt' = millis
  /\ \E ok \in BOOLEAN :
       /\ ok => connected
       /\ out' = << Ev("readSensor", "", 0, "", TRUE),
                    Ev("publish", topic_telemetry_data,
                       preincrement(counter).value, "", ok),
                    Ev("print", "", preincrement(counter).value, "telemetry",
                       TRUE) >>
  /\ UNCHANGED << pins, reported, connected, subscribed, millis, now,
                  outage >>

\* loop() waiting at the gate for the interval to elapse instead of
\* skipping the telemetry block.
telemetry_wait ==
  /\ pc = "gate"
  /\ ~gate(now, lastMessage)
  /\ out' = << Ev("delay", "", 1, "", TRUE) >>
  /\ UNCHANGED << pc, pins, reported, connected, subscribed, millis, now,
                  lastMessage, counter, lastPublishAt, outage >>

\* loop(): the telemetry block is skipped.
telemetry_skip ==
  /\ pc = "gate"
  /\ ~gate(now, lastMessage)
  /\ pc' = "loop_time"
  /\ out' = << >>
  /\ UNCHANGED << pins, reported, connected, subscribed, millis, now,
                  lastMessage, counter, lastPublishAt, outage >>

Next ==
  \/ setup_sensor_missing
  \/ setup_sensor_found
  \/ setup_wifi_wait
  \/ setup_wifi_done
  \/ setup_relays
  \/ Tick
  \/ LinkDrop
  \/ loop_time_retry
  \/ loop_time_done
  \/ loop_now
  \/ reconnect_connected
  \/ reconnect_failed
  \/ reconnect_return
  \/ client_loop_idle
  \/ client_loop_message
  \/ telemetry_publish
  \/ telemetry_skip

Spec == Init /\ [][Next]_vars

\* --------------------------------------------------------------- progress
\* The thread of control always takes its next step; the time refresh
\* eventually succeeds; a connect attempt eventually succeeds and the link
\* it makes is eventually still up when reconnect() tests it; time keeps
\* passing between iterations.
Fairness ==
  /\ WF_vars(loop_time_done)
  /\ WF_vars(loop_now)
  /\ WF_vars(reconnect_connected)
  /\ SF_vars(reconnect_return)
  /\ WF_vars(client_loop_idle \/ client_loop_message)
  /\ WF_vars(telemetry_publish \/ telemetry_skip)
  /\ SF_vars(Tick)

LiveSpec == Init /\ [][Next]_vars /\ Fairness

\* ------------------------------------------------ the tick counter wraps
\* The sketch has been running for 2^31 - 1 - WrapLead ms and has published
\* telemetry: loop() is about to start an iteration, the relays are off,
\* and lastMessage is at most `interval' behind the tick counter.
InitWrap ==
  /\ pc = "loop_time"
  /\ pins = [p \in RelayPin |-> "HIGH"]
  /\ reported = [r \in Relay |-> relay_status_off]
  /\ connected \in BOOLEAN
  /\ subscribed = connected
  /\ millis = MaxLong - WrapLead
  /\ now = millis
  /\ lastMessage \in {millis, millis - 2500, millis - interval}
  /\ counter = 1
  /\ lastPublishAt = lastMessage
  /\ outage = "none"
  /\ out = << >>

\* loop() and its environment, setup() being over.
NextLoop ==
  \/ Tick
  \/ LinkDrop
  \/ loop_time_retry
  \/ loop_time_done
  \/ loop_now
  \/ reconnect_connected
  \/ reconnect_failed
  \/ reconnect_return
  \/ client_loop_idle
  \/ client_loop_message
  \/ telemetry_publish
  \/ telemetry_skip

WrapSpec == InitWrap /\ [][NextLoop]_vars

\* loop() and its environment when no command changes a relay level (the
\* levels play no part in the control flow of loop()).
QuietLoop ==
  \/ Tick
  \/ LinkDrop
  \/ loop_time_retry
  \/ loop_time_done
  \/ loop_now
  \/ reconnect_connected
  \/ reconnect_failed
  \/ reconnect_return
  \/ client_loop_idle
  \/ (client_loop_message /\ pins' = pins)
  \/ telemetry_publish
  \/ telemetry_skip

\* loop() from then on, with the progress conditions.
LiveWrapSpec == InitWrap /\ [][QuietLoop]_vars /\ Fairness

TypeOK ==
  /\ pc \in {"setup", "halt", "setup_wifi", "setup_relays", "loop_time",
             "loop_now", "reconnect", "service", "gate"}
  /\ pins \in [RelayPin -> {"UNSET", "HIGH", "LOW"}]
  /\ reported \in [Relay -> {"none", relay_status_on, relay_status_off}]
  /\ connected \in BOOLEAN
  /\ subscribed \in BOOLEAN
  /\ millis \in 0..MaxClock
  /\ now \in 0..MaxClock
  /\ lastMessage \in 0..MaxClock
  /\ counter \in Nat
  /\ lastPublishAt \in 0..MaxClock
  /\ outage \in {"none", "found", "restored"}

\* ------------------------------------------------------------ properties
\* The command vocabulary and what each token stands for, as documented:
\* relay N on drives N's pin LOW and reports "1", relay N off drives it
\* HIGH and reports "0".
CommandTable ==
  { [token |-> "relay 0 on", relay |-> 0, pin |-> 26, level |-> "LOW",
     status |-> "1", topic |-> "esp32/relay_00_status"],
    [token |-> "relay 0 off", relay |-> 0, pin |-> 26, level |-> "HIGH",
     status |-> "0", topic |-> "esp32/relay_00_status"],
    [token |-> "relay 1 on", relay |-> 1, pin |-> 25, level |-> "LOW",
     status |-> "1", topic |-> "esp32/relay_01_status"],
    [token |-> "relay 1 off", relay |-> 1, pin |-> 25, level |-> "HIGH",
     status |-> "0", topic |-> "esp32/relay_01_status"],
    [token |-> "relay 2 on", relay |-> 2, pin |-> 27, level |-> "LOW",
     status |-> "1", topic |-> "esp32/relay_02_status"],
    [token |-> "relay 2 off", relay |-> 2, pin |-> 27, level |-> "HIGH",
     status |-> "0", topic |-> "esp32/relay_02_status"],
    [token |-> "relay 3 on", relay |-> 3, pin |-> 14, level |-> "LOW",
     status |-> "1", topic |-> "esp32/relay_03_status"],
    [token |-> "relay 3 off", relay |-> 3, pin |-> 14, level |-> "HIGH",
     status |-> "0", topic |-> "esp32/relay_03_status"] }

Tokens == { c.token : c \in CommandTable }
StatusTopics == { c.topic : c \in CommandTable }

\* o is the trace of a step in which callback ran.
IsArrival(o) ==
  /\ Len(o) >= 2
  /\ o[1].op = "notice"
  /\ o[1].val = "Message arrived on topic"
  /\ o[2].op = "print"

\* o is the trace of callback run on (topic, payload).
Delivered(o, topic, payload) ==
  IsArrival(o) /\ o[1].topic = topic /\ o[2].val = payload

\* Positions in o of status publishes, of those for relay r, and of
\* telemetry publishes.
StatusPubs(o) ==
  { i \in 1..Len(o) : o[i].op = "publish" /\ o[i].topic \in StatusTopics }
StatusPubsFor(o, r) ==
  { i \in StatusPubs(o) : \E c \in CommandTable :
                            c.relay = r /\ o[i].topic = c.topic }
TelemetryPubs(o) ==
  { i \in 1..Len(o) :
      o[i].op = "publish" /\ o[i].topic = "esp32/telemetry_data" }
Publishes(o) == { i \in 1..Len(o) : o[i].op = "publish" }
ConnectOk(o) == \E i \in 1..Len(o) : o[i].op = "connect" /\ o[i].ok
ConnectFailed(o) == \E i \in 1..Len(o) : o[i].op = "connect" /\ ~o[i].ok

\* o is: connect, subscribe to the command topic, then one "0" status per
\* relay, for relays 0, 1, 2, 3.
IsResync(o) ==
  /\ Len(o) = 6
  /\ o[1].op = "connect" /\ o[1].ok
  /\ o[2].op = "subscribe" /\ o[2].topic = "esp32/command"
  /\ \A r \in 0..3 :
       /\ o[3 + r].op = "publish"
       /\ o[3 + r].id = r
       /\ o[3 + r].val = "0"
       /\ \E c \in CommandTable : c.relay = r /\ o[3 + r].topic = c.topic

\* C1: each of the 8 command tokens delivered on the command topic drives
\* exactly its relay's pin to the commanded level (on = LOW, off = HIGH) and
\* leaves the other three pins as they were, whatever the levels before.
C1_DispatchDrivesExactlyOneRelay ==
  [][\A c \in CommandTable :
       (pc = "service" /\ Delivered(out', "esp32/command", c.token))
         => /\ pins'[c.pin] = c.level
            /\ \A p \in RelayPin \ {c.pin} : pins'[p] = pins[p]]_vars

\* "relay 2 on" has been dispatched while relay 0 was on and relay 3 off.
C1_Witness ==
  /\ pc = "gate"
  /\ Delivered(out, "esp32/command", "relay 2 on")
  /\ pins[27] = "LOW"
  /\ pins[26] = "LOW"
  /\ pins[14] = "HIGH"

\* C2: a payload on the command topic that is not one of the 8 tokens
\* changes no relay level and no reported status and publishes nothing;
\* after the arrival log lines its only effect is one warning.
C2_UnknownPayloadIsNoOp ==
  [][\A m \in Payloads \ Tokens :
       (pc = "service" /\ Delivered(out', "esp32/command", m))
         => /\ pins' = pins
            /\ reported' = reported
            /\ Publishes(out') = {}
            /\ Len(out') = 3
            /\ out'[3].op = "warning"]_vars

\* "relay 9 on" has been dispatched while a relay was on.
C2_Witness ==
  /\ pc = "gate"
  /\ Delivered(out, "esp32/command", "relay 9 on")
  /\ \E i \in 1..Len(out) : out[i].op = "warning"
  /\ pins[25] = "LOW"

\* C3: a recognized command for relay N publishes exactly one status
\* message, after the pin write, on N's status topic, with relayId N and
\* status "1" for on and "0" for off, and none for another relay.
C3_OneStatusPerCommand ==
  \A c \in CommandTable :
    (pc = "gate" /\ Delivered(out, "esp32/command", c.token))
      => /\ Cardinality(StatusPubs(out)) = 1
         /\ \A i \in StatusPubs(out) :
              /\ out[i].topic = c.topic
              /\ out[i].id = c.relay
              /\ out[i].val = c.status
              /\ \E j \in 1..(i - 1) :
                   /\ out[j].op = "digitalWrite"
                   /\ out[j].id = c.pin
                   /\ out[j].val = c.level

\* "relay 2 on" has been dispatched and reported on esp32/relay_02_status.
C3_Witness ==
  /\ pc = "gate"
  /\ Delivered(out, "esp32/command", "relay 2 on")
  /\ \E i \in StatusPubs(out) :
       out[i].topic = "esp32/relay_02_status" /\ out[i].val = "1"
  /\ pins[27] = "LOW"

\* C4: once a relay's status has been reported, the status last reported
\* is the level last written to its pin ("1" for LOW, "0" for HIGH).
C4_ReportedEqualsOutput ==
  \A c \in CommandTable :
    reported[c.relay] /= "none"
      => (reported[c.relay] = c.status <=> pins[c.pin] = c.level)

\* C5: a step in which connect succeeds performs, in order, the subscribe
\* to the command topic and one "0" status per relay 0..3, nothing else,
\* and leaves control inside reconnect().
C5_ResyncAfterConnect ==
  ConnectOk(out) => (IsResync(out) /\ pc = "reconnect" /\ subscribed)

\* A reconnection (a relay is on, so commands were served before it).
C5_Witness ==
  /\ ConnectOk(out)
  /\ Cardinality(StatusPubs(out)) = 4
  /\ connected
  /\ pins[26] = "LOW"

\* C6: from the step in which loop() finds the transport down until a
\* connect has succeeded with its subscribe and four "0" statuses, no
\* telemetry is published and callback does not run; a failed attempt ends
\* in a 5000 ms delay.
C6_OutageBlocksLoop ==
  [][/\ outage' = "found"
          => /\ pc' = "reconnect"
             /\ TelemetryPubs(out') = {}
             /\ ~IsArrival(out')
     /\ (outage = "found" /\ outage' /= "found")
          => (IsResync(out') /\ subscribed' /\ connected')
     /\ ConnectFailed(out')
          => /\ out'[Len(out')].op = "delay"
             /\ out'[Len(out')].id = 5000
             /\ millis' = millis + 5000]_vars

\* The loop is serving again after an outage with a failed attempt in it.
C6_Witness ==
  /\ outage = "restored"
  /\ pc = "gate"
  /\ millis >= now + 5000
  /\ connected

\* C7 as stated: at the gate, telemetry is published if and only if more
\* than 5000 ms have passed since the last telemetry publish.
C7_Original ==
  [][(pc = "gate" /\ pc' = "loop_time")
       => (TelemetryPubs(out') /= {} <=> millis - lastPublishAt > 5000)]_vars

\* C7 amended: at the gate, telemetry is published if and only if the tick
\* sampled at the start of this iteration exceeds by more than 5000 the
\* tick sampled at the start of the iteration of the last publish (0 when
\* there has been none).
C7_GateOnSampledTick ==
  [][/\ (pc = "gate" /\ pc' = "loop_time")
          => /\ (TelemetryPubs(out') /= {}) <=> (now - lastMessage > 5000)
             /\ lastMessage' = IF TelemetryPubs(out') /= {}
                                 THEN now ELSE lastMessage
     /\ pc' /= "loop_time" => lastMessage' = lastMessage
     /\ (pc = "loop_now" /\ pc' /= "loop_now") => now' = millis
     /\ pc /= "loop_now" => now' = now]_vars

\* Telemetry has been published in an iteration that was blocked in
\* reconnect() for at least 5000 ms.
C7_Witness ==
  /\ pc = "loop_time"
  /\ TelemetryPubs(out) /= {}
  /\ lastMessage = now
  /\ millis >= now + 5000
  /\ outage = "restored"

\* C8: counter goes up by exactly 1 in a step that publishes telemetry,
\* whose message carries the new value (1 for the first), and is left
\* alone by every other step.
C8_CounterCountsPublishes ==
  [][IF TelemetryPubs(out') /= {} /\ pc = "gate"
       THEN /\ counter' = counter + 1
            /\ Cardinality(TelemetryPubs(out')) = 1
            /\ \A i \in TelemetryPubs(out') : out'[i].id = counter'
       ELSE counter' = counter]_vars

\* The second telemetry message has been published, after a command and a
\* reconnection.
C8_Witness ==
  /\ counter = 2
  /\ \E i \in TelemetryPubs(out) : out[i].id = 2
  /\ outage = "restored"
  /\ pins[26] = "LOW"

\* C9 as stated: in every step the number of status publishes for relay N
\* is the number of changes of N's output level in the step plus the
\* number of successful connects in the step.
C9_Original ==
  [][\A c \in CommandTable :
       Cardinality(StatusPubsFor(out', c.relay))
         = (IF pins[c.pin] /= "UNSET" /\ pins'[c.pin] /= pins[c.pin]
              THEN 1 ELSE 0)
           + (IF ConnectOk(out') THEN 1 ELSE 0)]_vars

\* C9 amended: in every step the number of status publishes for relay N is
\* the number of recognized commands for N dispatched in the step (whether
\* or not they change N's level) plus the number of successful connects in
\* the step.
C9_StatusPerCommandAndConnect ==
  [][\A r \in 0..3 :
       Cardinality(StatusPubsFor(out', r))
         = (IF \E c \in CommandTable :
                 /\ c.relay = r
                 /\ pc = "service"
                 /\ Delivered(out', "esp32/command", c.token)
              THEN 1 ELSE 0)
           + (IF ConnectOk(out') THEN 1 ELSE 0)]_vars

\* "relay 1 off" has been dispatched and reported.
C9_Witness ==
  /\ pc = "gate"
  /\ Delivered(out, "esp32/command", "relay 1 off")
  /\ Cardinality(StatusPubsFor(out, 1)) = 1
  /\ pins[25] = "HIGH"
  /\ pins[14] = "LOW"

\* C10: a message on a topic other than the command topic changes no relay
\* level and no reported status, publishes nothing and logs no warning or
\* error, whatever its payload.
C10_OtherTopicIgnored ==
  [][\A t \in Topics \ {"esp32/command"}, m \in Payloads :
       (pc = "service" /\ Delivered(out', t, m))
         => /\ pins' = pins
            /\ reported' = reported
            /\ Len(out') = 2]_vars

\* "relay 0 on" has arrived on ESP32/command and relay 0 is still off,
\* while relay 1 is on.
C10_Witness ==
  /\ pc = "gate"
  /\ Delivered(out, "ESP32/command", "relay 0 on")
  /\ pins[26] = "HIGH"
  /\ pins[25] = "LOW"

\* ms between tick MaxLong and tick x, for x within a few seconds of the
\* passage of the tick counter from MaxLong to MinLong (negative before it).
Linear(x) == IF x >= 0 THEN x - 2147483647 ELSE (x + 2147483647) + 2

\* C18: around the passage of the tick counter from MaxLong to MinLong the
\* gate fires if and only if more than 5000 ms lie between the tick sampled
\* in this iteration and the tick sampled in the iteration of the last fire.
C18_GateAcrossWrap ==
  [][(pc = "gate" /\ pc' = "loop_time")
       => ((TelemetryPubs(out') /= {})
             <=> (Linear(now) - Linear(lastMessage) > 5000))]_vars

\* Telemetry has fired on a tick sampled after the wrap, the fire before it
\* having been on a tick sampled before the wrap.
C18_Witness ==
  /\ pc = "loop_time"
  /\ TelemetryPubs(out) /= {}
  /\ lastMessage = now
  /\ now < 0
  /\ counter = 2

\* C11: reconnect() is left only with the transport connected and only to
\* go on with loop(); a failed attempt leaves control in the retry loop
\* with the transport still down; and, connect attempts eventually
\* succeeding, control that is in reconnect() eventually reaches
\* client.loop().
C11_SupervisorNeverGivesUp ==
  /\ [][/\ (pc = "reconnect" /\ pc' /= "reconnect")
             => (connected /\ pc' = "service")
        /\ ConnectFailed(out') => (pc' = "reconnect" /\ ~connected')]_vars
  /\ (pc = "reconnect") ~> (pc = "service")

\* loop() is serving again after two failed connect attempts in a row.
C11_Witness ==
  /\ pc = "service"
  /\ outage = "restored"
  /\ connected
  /\ millis >= now + 10000

\* o reports the missing sensor.
SensorMissing(o) ==
  \E i \in 1..Len(o) :
    o[i].val = "Could not find a BME280 sensor, check wiring!"

\* C12: reporting the missing sensor halts the sketch; halted, it has not
\* started WiFi, configured a relay pin, connected, published or dispatched
\* and never takes another step; the halt is entered from the sensor check
\* of setup() only.
C12_SensorMissingHalts ==
  /\ [](pc = "halt"
          => /\ Len(out) = 1 /\ SensorMissing(out)
             /\ \A p \in RelayPin : pins[p] = "UNSET"
             /\ ~connected /\ ~subscribed
             /\ \A r \in 0..3 : reported[r] = "none"
             /\ counter = 0)
  /\ [][/\ SensorMissing(out') => pc' = "halt"
        /\ pc = "halt" => pc' = "halt"
        /\ (pc' = "halt" /\ pc /= "halt")
             => (pc = "setup" /\ SensorMissing(out'))]_vars

\* The sketch has halted on a missing sensor.
C12_Witness ==
  /\ pc = "halt"
  /\ SensorMissing(out)

\* A step of the sketch that ends where it began: one more turn of a loop
\* that has not finished.
Blocked(p) == pc = p /\ pc' = p /\ out' /= << >>

\* C13 as stated: the sketch turns in place only in the WiFi association
\* wait and in the retry loop of reconnect() (the sensor halt takes no
\* step at all).
C13_Original ==
  [][\A p \in {"setup", "setup_relays", "loop_time", "loop_now", "service",
               "gate"} : ~Blocked(p)]_vars

\* C13 amended: the sketch turns in place only in the WiFi association
\* wait, in the retry loop of reconnect() and in the time refresh loop at
\* the top of loop(); the connectivity test, client.loop() and the
\* telemetry gate can always be taken and each moves control on.
C13_BlockingPoints ==
  /\ [][\A p \in {"setup", "setup_relays", "loop_now", "service", "gate"} :
          ~Blocked(p)]_vars
  /\ [](pc = "loop_now" => ENABLED loop_now)
  /\ [](pc = "service" => ENABLED client_loop_idle)
  /\ [](pc = "gate" => ENABLED (telemetry_publish \/ telemetry_skip))

\* The time refresh has just failed in an iteration after the first
\* telemetry publish.
C13_Witness ==
  /\ pc = "loop_time"
  /\ Len(out) = 1
  /\ out[1].op = "forceUpdate"
  /\ counter >= 1

\* The steps of one iteration of loop() in order: from each position,
\* where control may be next.
LoopOrder ==
  [ loop_time |-> {"loop_time", "loop_now"},
    loop_now |-> {"loop_now", "reconnect", "service"},
    reconnect |-> {"reconnect", "service"},
    service |-> {"service", "gate"},
    gate |-> {"gate", "loop_time"} ]

\* C14: an iteration of loop() refreshes the time, then tests the
\* transport and stays in reconnect() until it is connected, then calls
\* client.loop() once, then runs the telemetry gate; callback runs in the
\* client.loop() step only and telemetry is published in the gate step only.
C14_LoopOrder ==
  [][/\ pc \in DOMAIN LoopOrder => pc' \in LoopOrder[pc]
     /\ ~Blocked("loop_now") /\ ~Blocked("service") /\ ~Blocked("gate")
     /\ (pc = "loop_now" /\ pc' = "service") => connected
     /\ (pc = "loop_now" /\ pc' = "reconnect") => ~connected
     /\ (pc = "reconnect" /\ pc' = "service") => connected
     /\ (pc = "loop_time" /\ pc' = "loop_now")
          => (Len(out') = 1 /\ out'[1].op = "update")
     /\ IsArrival(out')
          => (pc = "service" /\ pc' = "gate" /\ TelemetryPubs(out') = {})
     /\ TelemetryPubs(out') /= {}
          => (pc = "gate" /\ pc' = "loop_time")]_vars

\* A command has been dispatched by client.loop() in an iteration that
\* went through reconnect().
C14_Witness ==
  /\ pc = "gate"
  /\ Delivered(out, "esp32/command", "relay 3 on")
  /\ outage = "restored"
  /\ pins[14] = "LOW"

\* Some publish of o, among those at the positions ps, failed.
SomeFailed(o, ps) == \E i \in ps : ~o[i].ok

\* C15: a step whose telemetry publish fails still sets lastMessage to the
\* tick of this iteration and adds 1 to counter, and publishes once; a
\* command step whose status publish fails still leaves the pin at the
\* commanded level, and publishes once; the step after a failed publish
\* publishes nothing.
C15_FailedPublishNotRetried ==
  [][/\ (pc = "gate" /\ SomeFailed(out', TelemetryPubs(out')))
          => /\ lastMessage' = now
             /\ counter' = counter + 1
             /\ Cardinality(Publishes(out')) = 1
             /\ pc' = "loop_time"
     /\ \A c \in CommandTable :
          (/\ pc = "service"
           /\ Delivered(out', "esp32/command", c.token)
           /\ SomeFailed(out', StatusPubs(out')))
            => /\ pins'[c.pin] = c.level
               /\ Cardinality(Publishes(out')) = 1
               /\ pc' = "gate"
     /\ (SomeFailed(out, Publishes(out)) /\ pc /= "reconnect")
          => (Publishes(out') = {}
              \/ (pc = "gate" /\ TelemetryPubs(out') = Publishes(out')))]_vars

\* A telemetry publish has failed with the transport up, after relay 0 was
\* switched on; lastMessage and counter have moved on.
C15_Witness ==
  /\ pc = "loop_time"
  /\ SomeFailed(out, TelemetryPubs(out))
  /\ lastMessage = now
  /\ counter = 1
  /\ connected
  /\ pins[26] = "LOW"

\* C16: setup() drives the four outputs HIGH (off); after it, the only
\* step that changes an output level is the dispatch of a recognized
\* command, which sets the addressed relay's pin to the commanded level and
\* no other; a successful connect in particular changes none.  Each level
\* is therefore that of the last recognized command for its relay, or off.
C16_OnlyDispatchDrivesRelays ==
  /\ [](pc \in DOMAIN LoopOrder
          => \A p \in RelayPin : pins[p] \in {"HIGH", "LOW"})
  /\ [][/\ (pc = "setup_relays" /\ pc' /= pc)
             => \A p \in RelayPin : pins'[p] = "HIGH"
        /\ (pins' /= pins /\ pc /= "setup_relays")
             => \E c \in CommandTable :
                  /\ pc = "service"
                  /\ Delivered(out', "esp32/command", c.token)
                  /\ pins' = [pins EXCEPT ![c.pin] = c.level]
        /\ (ConnectOk(out') \/ TelemetryPubs(out') /= {}
              \/ pc \in {"loop_time", "loop_now", "reconnect", "gate"})
             => pins' = pins]_vars

\* loop() is serving again after a reconnection and relays 2 and 3 are
\* still on.
C16_Witness ==
  /\ pc = "service"
  /\ outage = "restored"
  /\ pins[27] = "LOW"
  /\ pins[14] = "LOW"
  /\ reported[2] = "0"

\* Largest value of counter the runs of LiveWrapSpec reach.
MaxPublishes == 3

\* C17: the time refresh eventually succeeding, connects eventually
\* succeeding and time passing, another telemetry publish always comes:
\* whatever counter is, it eventually goes up, as long as the modelled
\* stretch of time has room for a tick sampled more than 5000 ms after the
\* last fire.
C17_TelemetryKeepsComing ==
  \A k \in 1..MaxPublishes :
    (counter = k /\ Linear(lastMessage) + 5000 + 2500 + WrapLead <= MaxClock)
      ~> (counter = k + 1 /\ TelemetryPubs(out) /= {})

\* The second telemetry publish of a run has happened, after an outage.
C17_Witness ==
  /\ counter = 3
  /\ TelemetryPubs(out) /= {}
  /\ outage = "restored"

====
